---- MODULE Spec2Model ----
(***************************************************************************)
(* Real-time chat relay of the grant-application backend: the WebSocket    *)
(* server set up at the end of registerRoutes (the /ws endpoint).          *)
(*                                                                         *)
(* State: the `clients` Map (Session Directory), the `messages` array      *)
(* (Message Log), the readyState of every accepted WebSocket, and the      *)
(* clock that Date.now() reads.  Every handler ('message', 'close') runs   *)
(* to completion on the single Node.js event loop, so each is one action.  *)
(* jwt.verify is called with a string secret, so jsonwebtoken invokes the  *)
(* callback before jwt.verify returns: the auth branch is one action too.  *)
(*                                                                         *)
(* `sent` records the ws.send calls of the handler that ran last, in call  *)
(* order, and `consoleError` what that handler wrote with console.error;   *)
(* both are emptied when the event loop goes on to the next event.         *)
(*                                                                         *)
(* `authenticated` is a history variable, not a variable of the program:   *)
(* the identifiers under which each socket has registered so far.          *)
(***************************************************************************)
EXTENDS Integers, Sequences, FiniteSets, TLC

VARIABLES clients, messages, readyState, now, sent, consoleError, authenticated

vars == <<clients, messages, readyState, now, sent, consoleError, authenticated>>

----------------------------------------------------------------------------
(* Bounds of the model *)

MaxMsgs == 1
MaxLog == 3
MaxClock == 2

(* "" is the JavaScript falsy value of a field that is absent from the     *)
(* frame (undefined) or empty.                                             *)
Absent == ""

Conns == {"c1", "c2", "c3"}
Ids == {"u1", "u2", "a1", "a2"}

(* The accounts of the users table: a token is signed at login or          *)
(* registration with the account's id and role.                            *)
RoleOf == [i \in Ids |-> IF i \in {"a1", "a2"} THEN "admin" ELSE "user"]

Token(i) == [id |-> i, role |-> RoleOf[i]]
InvalidToken == [id |-> Absent, role |-> Absent]
SignedTokens == {Token(i) : i \in Ids}

----------------------------------------------------------------------------
(* jwt.verify(data.token, JWT_SECRET, cb): err for a token that was not    *)
(* signed with JWT_SECRET (or has expired), else decoded = the payload.    *)

(* variant: the token that carries no valid signature is accepted *)
verifyErrLax(token) == token \notin SignedTokens \cup {InvalidToken}

verifyErr(token) == token \notin SignedTokens

decoded(token) == token

----------------------------------------------------------------------------
(* The `clients` Map<string, Client>.  A JavaScript Map iterates in        *)
(* insertion order and set() on an existing key keeps the key's position,  *)
(* so the Map is a sequence of entries with distinct keys.                 *)

Client(ws, userId, role) == [id |-> userId, ws |-> ws, userId |-> userId, role |-> role]

clientsHas(m, k) == \E i \in 1..Len(m) : m[i].id = k

clientsIndex(m, k) == CHOOSE i \in 1..Len(m) : m[i].id = k

clientsGet(m, k) == m[clientsIndex(m, k)]

clientsSet(m, k, v) ==
    IF clientsHas(m, k)
    THEN [m EXCEPT ![clientsIndex(m, k)] = v]
    ELSE Append(m, v)

clientsDelete(m, k) ==
    IF clientsHas(m, k)
    THEN LET j == clientsIndex(m, k)
         IN  [i \in 1..(Len(m) - 1) |-> IF i < j THEN m[i] ELSE m[i + 1]]
    ELSE m

(* ws.send(JSON.stringify(frame)) on socket ws.  ws >= 7.5 (the named      *)
(* WebSocketServer import) does not throw on a socket that is not OPEN:    *)
(* the frame is discarded.  The call is recorded with the readyState the   *)
(* socket had.                                                             *)
wsSend(out, ws, frame) == Append(out, [to |-> ws, frame |-> frame, rs |-> readyState[ws]])

(* The frames of the wire protocol, server to client.  A `message` frame   *)
(* spreads the fields of messageObj (msg); the others carry a text.        *)
NoMessage ==
    [id |-> 0, userId |-> Absent, senderRole |-> Absent, message |-> Absent,
     createdAt |-> 0, targetUserId |-> Absent]
MessageFrame(msg) ==
    [type |-> "message", message |-> msg.message, msg |-> msg, messages |-> <<>>]
HistoryFrame(msgs) ==
    [type |-> "history", message |-> Absent, msg |-> NoMessage, messages |-> msgs]
AuthErrorFrame ==
    [type |-> "auth-error", message |-> "Invalid token", msg |-> NoMessage, messages |-> <<>>]
ErrorFrame ==
    [type |-> "error", message |-> "User not authenticated", msg |-> NoMessage,
     messages |-> <<>>]

(* Array.prototype.filter is SelectSeq: the subsequence, in order, of the  *)
(* elements that satisfy the test.                                         *)

(* What JSON.parse yields for a frame, client to server *)
Data(type, token, userId, senderRole, message, targetUserId) ==
    [type |-> type, token |-> token, userId |-> userId, senderRole |-> senderRole,
     message |-> message, targetUserId |-> targetUserId]

AuthData(token, userId) == Data("auth", token, userId, Absent, Absent, Absent)
SendData(userId, senderRole, message, targetUserId) ==
    Data("send", InvalidToken, userId, senderRole, message, targetUserId)
HistoryData(userId, targetUserId) ==
    Data("getHistory", InvalidToken, userId, Absent, Absent, targetUserId)

----------------------------------------------------------------------------
Init ==
    /\ clients = <<>>
    /\ messages = <<>>
    /\ readyState = [c \in Conns |-> "NONE"]
    /\ now = 1
    /\ sent = <<>>
    /\ consoleError = Absent
    /\ authenticated = [c \in Conns |-> {}]

(* The event loop takes the next event once the previous handler returned  *)
Idle == sent = <<>> /\ consoleError = Absent

Flush ==
    /\ ~Idle
    /\ sent' = <<>>
    /\ consoleError' = Absent
    /\ UNCHANGED <<clients, messages, readyState, now, authenticated>>

(* wss.on('connection'): a new socket is accepted; the handlers are bound  *)
Connection(ws) ==
    /\ Idle
    /\ readyState[ws] = "NONE"
    /\ readyState' = [readyState EXCEPT ![ws] = "OPEN"]
    /\ UNCHANGED <<clients, messages, now, sent, consoleError, authenticated>>

(* A socket emits 'message' while it is OPEN and, after the server called  *)
(* ws.close(), until the closing handshake completes.                      *)
Receiving(ws) == Idle /\ readyState[ws] \in {"OPEN", "CLOSING"}

(* variant: the replay forgets the messages addressed to the user *)
userMessagesSenderOnly(msgs, role, userId) ==
    LET Test(msg) == \/ role = "admin"
                     \/ msg.userId = userId
    IN  SelectSeq(msgs, Test)

(* history replay filter of the auth branch *)
userMessages(msgs, role, userId) ==
    LET Test(msg) == \/ role = "admin"
                     \/ msg.userId = userId
                     \/ msg.targetUserId = userId
    IN  SelectSeq(msgs, Test)

(* ws.on('message'), data.type === 'auth' *)
Auth(ws, data) ==
    /\ Receiving(ws)
    /\ data.type = "auth"
    /\ IF verifyErr(data.token)
       THEN /\ sent' = wsSend(<<>>, ws, AuthErrorFrame)
            /\ readyState' = [readyState EXCEPT ![ws] = "CLOSING"]
            /\ UNCHANGED <<clients, messages, now>>
       ELSE /\ clients' = clientsSet(clients, data.userId,
                                     Client(ws, data.userId, decoded(data.token).role))
            /\ sent' = wsSend(<<>>, ws,
                          HistoryFrame(userMessages(messages, decoded(data.token).role,
                                                    data.userId)))
            /\ UNCHANGED <<messages, readyState, now>>
    /\ authenticated' = IF verifyErr(data.token)
                        THEN authenticated
                        ELSE [authenticated EXCEPT ![ws] = @ \cup {data.userId}]
    /\ UNCHANGED consoleError

(* Date.now() never runs backwards: a read returns the previous reading or *)
(* a later one.                                                            *)
DateNow == {t \in now..(now + 1) : t <= MaxClock}

messageObj(data, t) ==
    [id |-> t, userId |-> data.userId, senderRole |-> data.senderRole,
     message |-> data.message, createdAt |-> t, targetUserId |-> data.targetUserId]

(* variant: the loop breaks after the first admin *)
RECURSIVE sendToAdminsFirstOnly(_, _, _)
sendToAdminsFirstOnly(out, m, frame) ==
    IF m = <<>> THEN out
    ELSE IF Head(m).role = "admin"
         THEN wsSend(out, Head(m).ws, frame)
         ELSE sendToAdminsFirstOnly(out, Tail(m), frame)

(* the for..of loop of the user branch: one ws.send per entry of the Map   *)
(* whose role is admin, in iteration order                                 *)
RECURSIVE sendToAdmins(_, _, _)
sendToAdmins(out, m, frame) ==
    IF m = <<>> THEN out
    ELSE IF Head(m).role = "admin"
         THEN sendToAdmins(wsSend(out, Head(m).ws, frame), Tail(m), frame)
         ELSE sendToAdmins(out, Tail(m), frame)

(* variant: an admin's targeted message also goes to every admin *)
relayAdminsToo(sender, data, msg) ==
    IF sender.role = "admin" /\ data.targetUserId # Absent
    THEN IF clientsHas(clients, data.targetUserId)
         THEN wsSend(sendToAdmins(wsSend(<<>>, clientsGet(clients, data.targetUserId).ws,
                                         MessageFrame(msg)),
                                  clients, MessageFrame(msg)),
                     sender.ws, MessageFrame(msg))
         ELSE wsSend(<<>>, sender.ws, MessageFrame(msg))
    ELSE IF sender.role = "user"
         THEN wsSend(sendToAdmins(<<>>, clients, MessageFrame(msg)), sender.ws, MessageFrame(msg))
         ELSE <<>>

(* variant: nothing is written when the target is not registered *)
relayDropOffline(sender, data, msg) ==
    IF sender.role = "admin" /\ data.targetUserId # Absent
    THEN IF clientsHas(clients, data.targetUserId)
         THEN wsSend(wsSend(<<>>, clientsGet(clients, data.targetUserId).ws, MessageFrame(msg)),
                     sender.ws, MessageFrame(msg))
         ELSE <<>>
    ELSE IF sender.role = "user"
         THEN wsSend(sendToAdmins(<<>>, clients, MessageFrame(msg)), sender.ws, MessageFrame(msg))
         ELSE <<>>

(* variant: the admin's targeted message is not echoed to the admin *)
relayNoEcho(sender, data, msg) ==
    IF sender.role = "admin" /\ data.targetUserId # Absent
    THEN IF clientsHas(clients, data.targetUserId)
         THEN wsSend(<<>>, clientsGet(clients, data.targetUserId).ws, MessageFrame(msg))
         ELSE wsSend(<<>>, sender.ws, MessageFrame(msg))
    ELSE IF sender.role = "user"
         THEN wsSend(sendToAdmins(<<>>, clients, MessageFrame(msg)), sender.ws, MessageFrame(msg))
         ELSE <<>>

(* the relay dispatch that follows messages.push *)
relay(sender, data, msg) ==
    IF sender.role = "admin" /\ data.targetUserId # Absent
    THEN IF clientsHas(clients, data.targetUserId)
         THEN wsSend(wsSend(<<>>, clientsGet(clients, data.targetUserId).ws, MessageFrame(msg)),
                     sender.ws, MessageFrame(msg))
         ELSE wsSend(<<>>, sender.ws, MessageFrame(msg))
    ELSE IF sender.role = "user"
         THEN wsSend(sendToAdmins(<<>>, clients, MessageFrame(msg)), sender.ws, MessageFrame(msg))
         ELSE <<>>

(* variant: the message is pushed before the sender is looked up *)
SendPushFirst(ws, data) ==
    /\ Receiving(ws)
    /\ data.type = "send"
    /\ IF data.userId = Absent
       THEN UNCHANGED <<clients, messages, readyState, now, sent>>
       ELSE /\ \E t \in DateNow :
                  /\ now' = t
                  /\ messages' = Append(messages, messageObj(data, t))
                  /\ sent' = IF ~clientsHas(clients, data.userId)
                             THEN wsSend(<<>>, ws, ErrorFrame)
                             ELSE relay(clientsGet(clients, data.userId), data,
                                        messageObj(data, t))
            /\ UNCHANGED <<clients, readyState>>
    /\ UNCHANGED <<consoleError, authenticated>>

(* variant: the close handler of another connection runs between the      *)
(* append and the fan-out, which then skips that connection                *)
SendUnregisterBetween(ws, data) ==
    /\ Receiving(ws)
    /\ data.type = "send"
    /\ IF data.userId = Absent
       THEN UNCHANGED <<clients, messages, readyState, now, sent>>
       ELSE IF ~clientsHas(clients, data.userId)
       THEN /\ sent' = wsSend(<<>>, ws, ErrorFrame)
            /\ UNCHANGED <<clients, messages, readyState, now>>
       ELSE /\ \E t \in DateNow : \E c \in DOMAIN readyState :
                  LET Others(f) == f.to # c
                      Kept(e) == e.ws # c
                  IN  /\ c # clientsGet(clients, data.userId).ws
                      /\ now' = t
                      /\ messages' = Append(messages, messageObj(data, t))
                      /\ clients' = SelectSeq(clients, Kept)
                      /\ sent' = SelectSeq(relay(clientsGet(clients, data.userId), data,
                                                 messageObj(data, t)), Others)
            /\ UNCHANGED readyState
    /\ UNCHANGED <<consoleError, authenticated>>

(* variant: the message is relayed but never pushed to the log *)
SendRelayOnly(ws, data) ==
    /\ Receiving(ws)
    /\ data.type = "send"
    /\ IF data.userId = Absent
       THEN UNCHANGED <<clients, messages, readyState, now, sent>>
       ELSE IF ~clientsHas(clients, data.userId)
       THEN /\ sent' = wsSend(<<>>, ws, ErrorFrame)
            /\ UNCHANGED <<clients, messages, readyState, now>>
       ELSE /\ \E t \in DateNow :
                  /\ now' = t
                  /\ sent' = relay(clientsGet(clients, data.userId), data, messageObj(data, t))
            /\ UNCHANGED <<clients, messages, readyState>>
    /\ UNCHANGED <<consoleError, authenticated>>

(* variant: messages.unshift instead of messages.push *)
SendUnshift(ws, data) ==
    /\ Receiving(ws)
    /\ data.type = "send"
    /\ IF data.userId = Absent
       THEN UNCHANGED <<clients, messages, readyState, now, sent>>
       ELSE IF ~clientsHas(clients, data.userId)
       THEN /\ sent' = wsSend(<<>>, ws, ErrorFrame)
            /\ UNCHANGED <<clients, messages, readyState, now>>
       ELSE /\ \E t \in DateNow :
                  /\ now' = t
                  /\ messages' = <<messageObj(data, t)>> \o messages
                  /\ sent' = relay(clientsGet(clients, data.userId), data, messageObj(data, t))
            /\ UNCHANGED <<clients, readyState>>
    /\ UNCHANGED <<consoleError, authenticated>>

(* ws.on('message'), data.type === 'send' *)
Send(ws, data) ==
    /\ Receiving(ws)
    /\ data.type = "send"
    /\ IF data.userId = Absent
       THEN UNCHANGED <<clients, messages, readyState, now, sent>>
       ELSE IF ~clientsHas(clients, data.userId)
       THEN /\ sent' = wsSend(<<>>, ws, ErrorFrame)
            /\ UNCHANGED <<clients, messages, readyState, now>>
       ELSE /\ \E t \in DateNow :
                  /\ now' = t
                  /\ messages' = Append(messages, messageObj(data, t))
                  /\ sent' = relay(clientsGet(clients, data.userId), data, messageObj(data, t))
            /\ UNCHANGED <<clients, readyState>>
    /\ UNCHANGED <<consoleError, authenticated>>

(* variant: only the requester's own messages are matched *)
conversationMessagesOneWay(msgs, userId, targetUserId) ==
    LET Test(msg) == msg.userId = userId /\ msg.targetUserId = targetUserId
    IN  SelectSeq(msgs, Test)

conversationMessages(msgs, userId, targetUserId) ==
    LET Test(msg) == \/ (msg.userId = userId /\ msg.targetUserId = targetUserId)
                     \/ (msg.userId = targetUserId /\ msg.targetUserId = userId)
    IN  SelectSeq(msgs, Test)

(* variant: the messages that were returned are taken out of the log *)
GetHistoryDrains(ws, data) ==
    /\ Receiving(ws)
    /\ data.type = "getHistory"
    /\ IF data.userId # Absent /\ data.targetUserId # Absent
       THEN LET Rest(msg) == ~ \/ (msg.userId = data.userId
                                   /\ msg.targetUserId = data.targetUserId)
                               \/ (msg.userId = data.targetUserId
                                   /\ msg.targetUserId = data.userId)
            IN  /\ sent' = wsSend(<<>>, ws,
                               HistoryFrame(conversationMessages(messages, data.userId,
                                                                 data.targetUserId)))
                /\ messages' = SelectSeq(messages, Rest)
       ELSE UNCHANGED <<sent, messages>>
    /\ UNCHANGED <<clients, readyState, now, consoleError, authenticated>>

(* variant: an empty result is answered with an error frame *)
GetHistoryErrorOnEmpty(ws, data) ==
    /\ Receiving(ws)
    /\ data.type = "getHistory"
    /\ IF data.userId # Absent /\ data.targetUserId # Absent
       THEN sent' = IF conversationMessages(messages, data.userId, data.targetUserId) = <<>>
                    THEN wsSend(<<>>, ws, ErrorFrame)
                    ELSE wsSend(<<>>, ws,
                             HistoryFrame(conversationMessages(messages, data.userId,
                                                               data.targetUserId)))
       ELSE UNCHANGED sent
    /\ UNCHANGED <<clients, messages, readyState, now, consoleError, authenticated>>

(* ws.on('message'), data.type === 'getHistory' *)
GetHistory(ws, data) ==
    /\ Receiving(ws)
    /\ data.type = "getHistory"
    /\ IF data.userId # Absent /\ data.targetUserId # Absent
       THEN sent' = wsSend(<<>>, ws,
                       HistoryFrame(conversationMessages(messages, data.userId,
                                                         data.targetUserId)))
       ELSE UNCHANGED sent
    /\ UNCHANGED <<clients, messages, readyState, now, consoleError, authenticated>>

(* variant: the loop deletes the first entry of the Map, whatever its ws *)
removeClientHead(m, ws) ==
    IF m # <<>> THEN clientsDelete(m, m[1].id) ELSE m

(* the for..of loop of the close handler: delete the first entry whose ws  *)
(* is the closing socket, then break                                       *)
removeClient(m, ws) ==
    IF \E i \in 1..Len(m) : m[i].ws = ws
    THEN LET j == CHOOSE i \in 1..Len(m) :
                     /\ m[i].ws = ws
                     /\ \A k \in 1..(i - 1) : m[k].ws # ws
         IN  clientsDelete(m, m[j].id)
    ELSE m

(* ws.on('close'): the peer disconnected, the transport failed, or the     *)
(* closing handshake started by ws.close() completed                       *)
Close(ws) ==
    /\ Idle
    /\ readyState[ws] \in {"OPEN", "CLOSING"}
    /\ readyState' = [readyState EXCEPT ![ws] = "CLOSED"]
    /\ clients' = removeClient(clients, ws)
    /\ UNCHANGED <<messages, now, sent, consoleError, authenticated>>

(* variant: the catch block closes the socket *)
MalformedCloses(ws) ==
    /\ Receiving(ws)
    /\ consoleError' = "Error processing message"
    /\ readyState' = [readyState EXCEPT ![ws] = "CLOSING"]
    /\ UNCHANGED <<clients, messages, now, sent, authenticated>>

(* ws.on('message') with a payload on which JSON.parse throws: control     *)
(* goes to the catch block, which logs                                     *)
Malformed(ws) ==
    /\ Receiving(ws)
    /\ consoleError' = "Error processing message"
    /\ UNCHANGED <<clients, messages, readyState, now, sent, authenticated>>

(* ws.on('error'): the transport reported an error; the handler logs.  ws  *)
(* emits 'close' afterwards, which is the Close action.                    *)
Error(ws) ==
    /\ Idle
    /\ readyState[ws] \in {"OPEN", "CLOSING"}
    /\ consoleError' = "Connection error"
    /\ UNCHANGED <<clients, messages, readyState, now, sent, authenticated>>

----------------------------------------------------------------------------
(* Environment of Spec: three clients.  c1 is opened by applicant u1, c2   *)
(* by administrator a1, c3 by administrator a2.  Nothing ties the userId   *)
(* field of an auth frame to the token: c1 also claims a1's identifier.    *)
(* u2 is an applicant who does not connect.                                *)

AuthFrames(ws) ==
    CASE ws = "c1" -> {AuthData(Token("u1"), "u1"), AuthData(Token("u1"), "a1"),
                       AuthData(InvalidToken, "u1")}
      [] ws = "c2" -> {AuthData(Token("a1"), "a1"), AuthData(InvalidToken, "a1")}
      [] OTHER     -> {AuthData(Token("a2"), "a2")}

SendFrames ==
    {SendData("u1", "user", "hello", Absent),
     SendData("a1", "admin", "hi", "u1"),
     SendData("a1", "admin", "hi", "u2"),
     SendData("a1", "admin", "hi", "a1"),
     SendData("a1", "admin", "hi", Absent),
     SendData(Absent, "user", "hello", Absent)}

HistoryFrames ==
    {HistoryData("a1", "u1"), HistoryData("u1", Absent)}

Next ==
    \/ \E ws \in Conns : Connection(ws)
    \/ \E ws \in Conns : \E data \in AuthFrames(ws) : Auth(ws, data)
    \/ \E ws \in Conns : \E data \in SendFrames :
          Len(messages) < MaxMsgs /\ Send(ws, data)
    \/ \E ws \in Conns : \E data \in HistoryFrames : GetHistory(ws, data)
    \/ \E ws \in Conns : Close(ws)
    \/ \E ws \in Conns : Malformed(ws)
    \/ \E ws \in Conns : Error(ws)
    \/ Flush

Spec == Init /\ [][Next]_vars

----------------------------------------------------------------------------
(* Environment of SpecHistory: two clients and a longer log.  c1 is opened *)
(* by administrator a1, c2 by applicant u1.                                *)

HistoryConns == {"c1", "c2"}

HistoryAuthFrames(ws) ==
    IF ws = "c1"
    THEN {AuthData(Token("a1"), "a1")}
    ELSE {AuthData(Token("u1"), "u1")}

HistorySendFrames ==
    {SendData("a1", "admin", "hi", "u1"),
     SendData("u1", "user", "hello", "a1"),
     SendData("a1", "admin", "hi", "u2"),
     SendData("u1", "user", "hello", Absent),
     SendData("a1", "user", "hi", Absent)}

HistoryQueryFrames ==
    {HistoryData("a1", "u1"), HistoryData("u1", "a1"), HistoryData("u2", "a1")}

NextHistory ==
    \/ \E ws \in HistoryConns : Connection(ws)
    \/ \E ws \in HistoryConns : \E data \in HistoryAuthFrames(ws) : Auth(ws, data)
    \/ \E ws \in HistoryConns : \E data \in HistorySendFrames :
          Len(messages) < MaxLog /\ Send(ws, data)
    \/ \E ws \in HistoryConns : \E data \in HistoryQueryFrames : GetHistory(ws, data)
    \/ \E ws \in HistoryConns : Close(ws)
    \/ \E ws \in HistoryConns : Malformed(ws)
    \/ \E ws \in HistoryConns : Error(ws)
    \/ Flush

SpecHistory == Init /\ [][NextHistory]_vars

----------------------------------------------------------------------------
(* Vocabulary of the properties *)

SentTo(out) == {out[i].to : i \in 1..Len(out)}

CountTo(out, ws) == Cardinality({i \in 1..Len(out) : out[i].to = ws})

AdminEntries(m) == {i \in 1..Len(m) : m[i].role = "admin"}

EntriesOf(m, ws) == {i \in 1..Len(m) : m[i].ws = ws}

Lookup(m, k) ==
    IF \E i \in 1..Len(m) : m[i].id = k
    THEN (CHOOSE e \in {m[i] : i \in 1..Len(m)} : e.id = k).ws
    ELSE Absent

(* log' is log with exactly one message appended *)
OneAppended(log, log2) ==
    /\ Len(log2) = Len(log) + 1
    /\ \A i \in 1..Len(log) : log2[i] = log[i]

(* h lists the entries of log at the indices J, in ascending index order *)
NthOf(J, n) == CHOOSE j \in J : Cardinality({k \in J : k < j}) = n - 1

ListsExactly(h, log, J) ==
    /\ Len(h) = Cardinality(J)
    /\ \A n \in 1..Len(h) : h[n] = log[NthOf(J, n)]

(* the frames a client may send in either environment *)
AllConns == Conns \cup HistoryConns
AllAuthFrames == UNION {AuthFrames(ws) \cup HistoryAuthFrames(ws) : ws \in AllConns}
AllSendFrames == SendFrames \cup HistorySendFrames
AllQueryFrames == HistoryFrames \cup HistoryQueryFrames

(* the role under which identifier k is registered in directory m *)
RoleIn(m, k) == (CHOOSE e \in {m[i] : i \in 1..Len(m)} : e.id = k).role

(* the connections of the entries of m whose role is admin *)
AdminConns(m) == {m[i].ws : i \in AdminEntries(m)}

----------------------------------------------------------------------------
(* C1: a send whose sender is registered with role user and that names no  *)
(* target appends exactly one ChatMessage and writes one `message` frame   *)
(* of it per admin entry of the directory and one to the sender's          *)
(* connection, and nothing else (no error frame), for 0, 1 or N admins.    *)
C1_UserBroadcast ==
    [][\A ws \in AllConns : \A data \in AllSendFrames :
          (/\ data.userId # Absent
           /\ data.targetUserId = Absent
           /\ \E i \in 1..Len(clients) :
                 clients[i].id = data.userId /\ clients[i].role = "user"
           /\ Send(ws, data))
          => /\ OneAppended(messages, messages')
             /\ messages'[Len(messages')].userId = data.userId
             /\ messages'[Len(messages')].message = data.message
             /\ \A i \in 1..Len(sent') :
                   /\ sent'[i].frame.type = "message"
                   /\ sent'[i].frame.msg = messages'[Len(messages')]
             /\ \A c \in AllConns :
                   CountTo(sent', c) =
                       Cardinality(AdminEntries(clients) \cap EntriesOf(clients, c))
                       + (IF Lookup(clients, data.userId) = c THEN 1 ELSE 0)
     ]_vars

(* C1 witness: u1's message went to two admin connections and to u1 *)
C1_Witness ==
    /\ Len(sent) = 3
    /\ SentTo(sent) = {"c1", "c2", "c3"}
    /\ \A i \in 1..3 : /\ sent[i].frame.type = "message"
                       /\ sent[i].frame.msg.userId = "u1"
                       /\ sent[i].frame.msg.targetUserId = Absent
    /\ Cardinality(AdminEntries(clients)) = 2
    /\ Lookup(clients, "u1") = "c1"

(* C2: a send whose sender is registered with role admin and that names    *)
(* target U is written to the connection registered for U (if any) and to  *)
(* the admin's own connection, and to no other connection.                 *)
C2_AdminTargeted ==
    [][\A ws \in AllConns : \A data \in AllSendFrames :
          (/\ data.userId # Absent
           /\ data.targetUserId # Absent
           /\ \E i \in 1..Len(clients) :
                 clients[i].id = data.userId /\ clients[i].role = "admin"
           /\ Send(ws, data))
          => /\ SentTo(sent') =
                   {Lookup(clients, data.userId)}
                   \cup (IF Lookup(clients, data.targetUserId) # Absent
                         THEN {Lookup(clients, data.targetUserId)} ELSE {})
             /\ \A i \in 1..Len(sent') :
                   /\ sent'[i].frame.type = "message"
                   /\ sent'[i].frame.msg.userId = data.userId
                   /\ sent'[i].frame.msg.targetUserId = data.targetUserId
     ]_vars

(* C2 witness: a1 (on c2) wrote to u1 (on c1); c3 is registered for the    *)
(* other admin a2 and got nothing                                          *)
C2_Witness ==
    /\ SentTo(sent) = {"c1", "c2"}
    /\ \A i \in 1..Len(sent) : /\ sent[i].frame.type = "message"
                               /\ sent[i].frame.msg.userId = "a1"
                               /\ sent[i].frame.msg.targetUserId = "u1"
    /\ Lookup(clients, "a1") = "c2"
    /\ Lookup(clients, "u1") = "c1"
    /\ Lookup(clients, "a2") = "c3"

(* C3: an auth frame whose token fails verification gets an `auth-error`   *)
(* frame on that connection, the transport is closed (ws.close() leaves    *)
(* OPEN), and the directory gets no entry that was not there before.       *)
C3_AuthFailure ==
    [][\A ws \in AllConns : \A data \in AllAuthFrames :
          (data.token = InvalidToken /\ Auth(ws, data))
          => /\ Len(sent') = 1
             /\ sent'[1].to = ws
             /\ sent'[1].frame.type = "auth-error"
             /\ readyState'[ws] \in {"CLOSING", "CLOSED"}
             /\ \A i \in 1..Len(clients') : \E j \in 1..Len(clients) : clients'[i] = clients[j]
     ]_vars

(* C3 witness: c1 was refused while c2 is registered *)
C3_Witness ==
    /\ Len(sent) = 1
    /\ sent[1].to = "c1"
    /\ sent[1].frame.type = "auth-error"
    /\ readyState["c1"] = "CLOSING"
    /\ Lookup(clients, "a1") = "c2"
    /\ EntriesOf(clients, "c1") = {}

(* C4: a successful Authenticate registers the connection under the        *)
(* identifier and role that verification returned for the token: the key   *)
(* of the entry is the token's identifier.                                 *)
C4_KeyIsTokenIdentifier ==
    [][\A ws \in AllConns : \A data \in AllAuthFrames :
          (data.token # InvalidToken /\ Auth(ws, data))
          => /\ Lookup(clients', data.token.id) = ws
             /\ \E i \in 1..Len(clients') :
                   /\ clients'[i].id = data.token.id
                   /\ clients'[i].role = data.token.role
             /\ \A i \in 1..Len(clients') :
                   clients'[i].ws = ws /\ clients'[i] \notin {clients[j] : j \in 1..Len(clients)}
                   => clients'[i].id = data.token.id
     ]_vars

(* ws never authenticated: it holds no entry, and no other connection was  *)
(* ever accepted, so none can have displaced an entry of ws                *)
NeverAuthenticated(ws) ==
    /\ EntriesOf(clients, ws) = {}
    /\ \A c \in AllConns \ {ws} : readyState[c] = "NONE"

Rejected(ws) ==
    /\ Len(sent') = 1
    /\ sent'[1].to = ws
    /\ sent'[1].frame.type = "error"
    /\ UNCHANGED <<clients, messages, readyState>>

(* C5: a send or getHistory frame on a connection that has not itself      *)
(* authenticated is rejected with an error frame on that connection and    *)
(* not acted on; the connection stays open.                                *)
C5_UnauthenticatedRejected ==
    [][\A ws \in AllConns :
          NeverAuthenticated(ws)
          => /\ \A data \in AllSendFrames :
                   data.userId # Absent /\ Send(ws, data) => Rejected(ws)
             /\ \A data \in AllQueryFrames :
                   (data.userId # Absent /\ data.targetUserId # Absent /\ GetHistory(ws, data))
                   => Rejected(ws)
     ]_vars

(* C6: once the close of a connection has been handled, no directory entry *)
(* holds that connection's handle.                                         *)
C6_CloseRemovesEveryEntry ==
    \A ws \in AllConns : readyState[ws] = "CLOSED" => EntriesOf(clients, ws) = {}

(* C7: Lookup returns the handle of the most recent Register for an        *)
(* identifier (one entry per identifier, other identifiers untouched) and  *)
(* returns absent once that connection has been unregistered.              *)
C7_LookupReflectsRegistration ==
    [][/\ \A ws \in AllConns : \A data \in AllAuthFrames :
             (data.token # InvalidToken /\ Auth(ws, data))
             => /\ Lookup(clients', data.userId) = ws
                /\ Cardinality({i \in 1..Len(clients') : clients'[i].id = data.userId}) = 1
                /\ \A k \in Ids \ {data.userId} : Lookup(clients', k) = Lookup(clients, k)
       /\ \A ws \in AllConns :
             Close(ws)
             => \A k \in Ids :
                   Lookup(clients', k) =
                       IF Lookup(clients, k) = ws THEN Absent ELSE Lookup(clients, k)
     ]_vars

(* C8: a send whose senderId has no directory entry gets one `error` frame *)
(* on the connection it arrived on and changes nothing else: log and       *)
(* directory are unchanged and no other connection is written to.          *)
C8_UnknownSender ==
    [][\A ws \in AllConns : \A data \in AllSendFrames :
          (/\ data.userId # Absent
           /\ Lookup(clients, data.userId) = Absent
           /\ Send(ws, data))
          => /\ Len(sent') = 1
             /\ sent'[1].to = ws
             /\ sent'[1].frame.type = "error"
             /\ messages' = messages
             /\ clients' = clients
             /\ readyState' = readyState
     ]_vars

(* C8 witness: c1, which holds no entry, got the error frame while another *)
(* connection is registered                                                *)
C8_Witness ==
    /\ Len(sent) = 1
    /\ sent[1].to = "c1"
    /\ sent[1].frame.type = "error"
    /\ EntriesOf(clients, "c1") = {}
    /\ Lookup(clients, "a1") = "c2"
    /\ Lookup(clients, "u1") = Absent

(* C9: the history replay of a successful authentication is written to the *)
(* authenticating connection only and lists, in log order, every logged    *)
(* message for role admin, and for another role exactly the messages whose *)
(* senderId or targetId is the registered identifier.                      *)
C9_ReplayOnAuth ==
    [][\A ws \in AllConns : \A data \in AllAuthFrames :
          (data.token # InvalidToken /\ Auth(ws, data))
          => /\ Len(sent') = 1
             /\ sent'[1].to = ws
             /\ sent'[1].frame.type = "history"
             /\ ListsExactly(sent'[1].frame.messages, messages,
                    IF data.token.role = "admin"
                    THEN 1..Len(messages)
                    ELSE {j \in 1..Len(messages) :
                             \/ messages[j].userId = data.userId
                             \/ messages[j].targetUserId = data.userId})
     ]_vars

(* C9 witness: u1 (role user) was replayed a proper part of the log that   *)
(* holds a no-target message (which no conversation query returns)         *)
C9_Witness ==
    /\ Len(sent) = 1
    /\ sent[1].frame.type = "history"
    /\ Lookup(clients, "u1") = sent[1].to
    /\ Len(messages) = 3
    /\ Len(sent[1].frame.messages) = 2
    /\ \E i \in 1..2 : sent[1].frame.messages[i].targetUserId = Absent
    /\ \E j \in 1..3 : messages[j].userId = "a1" /\ messages[j].targetUserId = "u2"

(* C10: a getHistory frame for (requester, target) is answered with        *)
(* exactly the logged messages whose (senderId, targetId) is (requester,   *)
(* target) or (target, requester), in log order.                           *)
C10_ConversationHistory ==
    [][\A ws \in AllConns : \A data \in AllQueryFrames :
          (data.userId # Absent /\ data.targetUserId # Absent /\ GetHistory(ws, data))
          => /\ Len(sent') = 1
             /\ sent'[1].to = ws
             /\ sent'[1].frame.type = "history"
             /\ ListsExactly(sent'[1].frame.messages, messages,
                    {j \in 1..Len(messages) :
                        \/ /\ messages[j].userId = data.userId
                           /\ messages[j].targetUserId = data.targetUserId
                        \/ /\ messages[j].userId = data.targetUserId
                           /\ messages[j].targetUserId = data.userId})
     ]_vars

(* C10 witness: after a1->u1, u1->a1, a1->u2 the history of (a1, u1) is    *)
(* the first two                                                           *)
C10_Witness ==
    /\ Len(messages) = 3
    /\ messages[1].userId = "a1" /\ messages[1].targetUserId = "u1"
    /\ messages[2].userId = "u1" /\ messages[2].targetUserId = "a1"
    /\ messages[3].userId = "a1" /\ messages[3].targetUserId = "u2"
    /\ Len(sent) = 1
    /\ sent[1].frame.type = "history"
    /\ sent[1].frame.messages = <<messages[1], messages[2]>>

(* C11: a send is one step with respect to Register and Unregister: it     *)
(* appends exactly one ChatMessage, leaves the directory as it was at the  *)
(* append, and the connections written to are the ones the routing rule    *)
(* selects from that directory: the sender's and the target's for an admin *)
(* with a target, the sender's and every admin's for a user; for an admin  *)
(* without target (policy left open) nobody but the sender.                *)
C11_AtomicSend ==
    [][\A ws \in AllConns : \A data \in AllSendFrames :
          (/\ data.userId # Absent
           /\ Lookup(clients, data.userId) # Absent
           /\ Send(ws, data))
          => /\ OneAppended(messages, messages')
             /\ clients' = clients
             /\ readyState' = readyState
             /\ IF RoleIn(clients, data.userId) = "admin" /\ data.targetUserId # Absent
                THEN SentTo(sent') = ({Lookup(clients, data.userId),
                                       Lookup(clients, data.targetUserId)} \ {Absent})
                ELSE IF RoleIn(clients, data.userId) = "user"
                THEN SentTo(sent') = {Lookup(clients, data.userId)} \cup AdminConns(clients)
                ELSE SentTo(sent') \subseteq {Lookup(clients, data.userId)}
             /\ \A i \in 1..Len(sent') :
                   /\ sent'[i].frame.type = "message"
                   /\ sent'[i].frame.msg = messages'[Len(messages')]
     ]_vars

(* C11 witness: u1's message went to u1 (c1) and to admin a1 (c2) after    *)
(* admin a2 registered on c3 and c3 was closed: c3 got nothing             *)
C11_Witness ==
    /\ Len(messages) = 1
    /\ SentTo(sent) = {"c1", "c2"}
    /\ \A i \in 1..Len(sent) : sent[i].frame.msg = messages[1]
    /\ messages[1].userId = "u1"
    /\ Lookup(clients, "u1") = "c1"
    /\ Lookup(clients, "a1") = "c2"
    /\ readyState["c3"] = "CLOSED"
    /\ Lookup(clients, "a2") = Absent

(* C12: durability before fan-out: every `message` frame that a handler    *)
(* wrote to a connection carries a ChatMessage that is in the log.         *)
C12_LoggedBeforeDelivered ==
    \A i \in 1..Len(sent) :
        sent[i].frame.type = "message"
        => \E j \in 1..Len(messages) : messages[j] = sent[i].frame.msg

(* C12 witness: a1's message for u2 was written to a1's connection and is  *)
(* the last entry of the log                                               *)
C12_Witness ==
    /\ Len(sent) = 1
    /\ sent[1].frame.type = "message"
    /\ sent[1].frame.msg.targetUserId = "u2"
    /\ sent[1].to = Lookup(clients, "a1")
    /\ Len(messages) >= 1
    /\ messages[Len(messages)] = sent[1].frame.msg

(* C13: the log is append-only: in every step (auth, send, getHistory,     *)
(* close, error, malformed frame) the log before the step is a prefix of   *)
(* the log after it.                                                       *)
C13_AppendOnly ==
    [][/\ Len(messages) <= Len(messages')
       /\ \A i \in 1..Len(messages) : messages'[i] = messages[i]
     ]_vars

(* C13 witness: a log of three messages, the first two different, after a  *)
(* connection was closed and an error event was handled                    *)
C13_Witness ==
    /\ Len(messages) = 3
    /\ messages[1] # messages[2]
    /\ \E ws \in HistoryConns : readyState[ws] = "CLOSED"
    /\ consoleError = "Connection error"

(* C14: no two ChatMessages of the log share an id, also when several      *)
(* sends are handled within one tick of the clock.                         *)
C14_UniqueIds ==
    \A i, j \in 1..Len(messages) : i # j => messages[i].id # messages[j].id

(* C15: a send whose sender is registered with role admin and that names   *)
(* no target appends exactly one ChatMessage and writes a `message` frame  *)
(* of it to the sending admin's connection.                                *)
C15_AdminNoTarget ==
    [][\A ws \in AllConns : \A data \in AllSendFrames :
          (/\ data.userId # Absent
           /\ data.targetUserId = Absent
           /\ Lookup(clients, data.userId) # Absent
           /\ RoleIn(clients, data.userId) = "admin"
           /\ Send(ws, data))
          => /\ OneAppended(messages, messages')
             /\ \E i \in 1..Len(sent') :
                   /\ sent'[i].to = Lookup(clients, data.userId)
                   /\ sent'[i].frame.type = "message"
                   /\ sent'[i].frame.msg = messages'[Len(messages')]
     ]_vars

(* C16: a connection is associated with at most one participant: a         *)
(* connection handle appears in at most one entry of the directory, also   *)
(* after several successful auth frames on the same connection.            *)
C16_OneEntryPerConnection ==
    \A ws \in AllConns : Cardinality(EntriesOf(clients, ws)) <= 1

(* C17: a ChatMessage is logged with a targetId only if its sender is      *)
(* registered with role admin: the message of a sender registered with     *)
(* role user is appended without targetId.                                 *)
C17_TargetOnlyFromAdmin ==
    [][\A ws \in AllConns : \A data \in AllSendFrames :
          (/\ data.userId # Absent
           /\ Lookup(clients, data.userId) # Absent
           /\ Send(ws, data)
           /\ messages'[Len(messages')].targetUserId # Absent)
          => RoleIn(clients, data.userId) = "admin"
     ]_vars

(* C18: when a sender registered with role admin sends to target U and no  *)
(* connection is registered for U, exactly one `message` frame is written, *)
(* to the sender's connection, and the message is appended with targetId   *)
(* U; every later step keeps it in the log (C13); and the replay of a      *)
(* successful authentication as U lists every logged message whose         *)
(* targetId is U.  Together: U's next authentication replays the message.  *)
C18_OfflineTarget ==
    [][/\ \A ws \in AllConns : \A data \in AllSendFrames :
             (/\ data.userId # Absent
              /\ data.targetUserId # Absent
              /\ Lookup(clients, data.userId) # Absent
              /\ RoleIn(clients, data.userId) = "admin"
              /\ Lookup(clients, data.targetUserId) = Absent
              /\ Send(ws, data))
             => /\ Len(sent') = 1
                /\ sent'[1].to = Lookup(clients, data.userId)
                /\ sent'[1].frame.type = "message"
                /\ OneAppended(messages, messages')
                /\ messages'[Len(messages')] = sent'[1].frame.msg
                /\ messages'[Len(messages')].targetUserId = data.targetUserId
                /\ messages'[Len(messages')].message = data.message
       /\ \A j \in 1..Len(messages) : Len(messages') >= j /\ messages'[j] = messages[j]
       /\ \A ws \in AllConns : \A data \in AllAuthFrames :
             (data.token # InvalidToken /\ Auth(ws, data))
             => /\ Len(sent') = 1
                /\ sent'[1].to = ws
                /\ sent'[1].frame.type = "history"
                /\ \A j \in 1..Len(messages) :
                      messages[j].targetUserId = data.userId
                      => \E n \in 1..Len(sent'[1].frame.messages) :
                            sent'[1].frame.messages[n] = messages[j]
     ]_vars

(* C18 witness: a1 wrote to u1 while u1's connection c2 was open but not  *)
(* registered: the only frame went to a1's connection c1 and the message   *)
(* is in the log, where u1's authentication on c2 will find it             *)
C18_Witness ==
    /\ Len(sent) = 1
    /\ sent[1].to = "c1"
    /\ sent[1].frame.type = "message"
    /\ sent[1].frame.msg.userId = "a1"
    /\ sent[1].frame.msg.targetUserId = "u1"
    /\ Lookup(clients, "a1") = "c1"
    /\ Lookup(clients, "u1") = Absent
    /\ readyState["c2"] = "OPEN"
    /\ messages[Len(messages)] = sent[1].frame.msg

(* C19: a frame that cannot be parsed is caught and logged: the connection *)
(* it arrived on and every other one keep their readyState, the directory  *)
(* and the log are unchanged and no frame is written to any connection, so *)
(* that once the handler has returned the connection takes its next frame  *)
(* in the state it was in before.                                          *)
C19_MalformedIgnored ==
    [][\A ws \in AllConns :
          Malformed(ws)
          => /\ consoleError' # Absent
             /\ readyState' = readyState
             /\ clients' = clients
             /\ messages' = messages
             /\ now' = now
             /\ sent' = <<>>
     ]_vars

(* C19 witness: an unparseable frame was handled while u1 and a1 are       *)
(* registered on open connections and the log holds a message              *)
C19_Witness ==
    /\ consoleError = "Error processing message"
    /\ sent = <<>>
    /\ Lookup(clients, "u1") = "c1"
    /\ Lookup(clients, "a1") = "c2"
    /\ readyState["c1"] = "OPEN"
    /\ readyState["c2"] = "OPEN"
    /\ Len(messages) = 1

(* the connections registered for u1 and for a1 are both written a         *)
(* `message` frame from sender with text body                              *)
BothReceive(out, sender, body) ==
    \A c \in {Lookup(clients, "u1"), Lookup(clients, "a1")} :
        \E i \in 1..Len(out) :
            /\ out[i].to = c
            /\ out[i].frame.type = "message"
            /\ out[i].frame.msg.userId = sender
            /\ out[i].frame.message = body

(* C20: with u1 registered as user and a1 as admin and an empty log, u1's  *)
(* send of "hello" without target is written to both connections (sender   *)
(* u1) and logged; a1's send of "hi" to u1 that follows is written to both *)
(* connections too, and the log is then exactly [hello, hi].               *)
C20_HelloHi ==
    [][\A ws \in AllConns :
          (/\ Lookup(clients, "u1") # Absent
           /\ Lookup(clients, "a1") # Absent
           /\ RoleIn(clients, "u1") = "user"
           /\ RoleIn(clients, "a1") = "admin")
          => /\ (messages = <<>> /\ Send(ws, SendData("u1", "user", "hello", Absent)))
                => /\ BothReceive(sent', "u1", "hello")
                   /\ Len(messages') = 1
                   /\ messages'[1].userId = "u1"
                   /\ messages'[1].message = "hello"
             /\ (/\ Len(messages) = 1
                 /\ messages[1].userId = "u1"
                 /\ messages[1].message = "hello"
                 /\ messages[1].targetUserId = Absent
                 /\ Send(ws, SendData("a1", "admin", "hi", "u1")))
                => /\ BothReceive(sent', "a1", "hi")
                   /\ Len(messages') = 2
                   /\ messages'[1] = messages[1]
                   /\ messages'[2].userId = "a1"
                   /\ messages'[2].message = "hi"
                   /\ messages'[2].targetUserId = "u1"
     ]_vars

(* C20 witness: the log is [hello of u1, hi of a1 for u1] and the "hi"     *)
(* frames have just been written to the connections of u1 and a1           *)
C20_Witness ==
    /\ Len(messages) = 2
    /\ messages[1].userId = "u1" /\ messages[1].message = "hello"
    /\ messages[1].targetUserId = Absent
    /\ messages[2].userId = "a1" /\ messages[2].message = "hi"
    /\ messages[2].targetUserId = "u1"
    /\ Lookup(clients, "u1") = "c2"
    /\ Lookup(clients, "a1") = "c1"
    /\ SentTo(sent) = {"c1", "c2"}
    /\ \A i \in 1..Len(sent) : sent[i].frame.msg = messages[2]

(* C21: both history retrievals only read the log: no auth frame and no    *)
(* getHistory frame changes the log, and a getHistory frame leaves the     *)
(* directory unchanged as well.                                            *)
C21_HistoryReadOnly ==
    [][/\ \A ws \in AllConns : \A data \in AllAuthFrames :
             Auth(ws, data) => messages' = messages
       /\ \A ws \in AllConns : \A data \in AllQueryFrames :
             GetHistory(ws, data) => messages' = messages /\ clients' = clients
     ]_vars

(* C21 witness: a getHistory on admin a1's connection was answered with a  *)
(* proper, non-empty part of the log (an admin's replay is the whole log)  *)
C21_Witness ==
    /\ Len(sent) = 1
    /\ sent[1].to = "c1"
    /\ sent[1].frame.type = "history"
    /\ Len(sent[1].frame.messages) >= 1
    /\ Len(sent[1].frame.messages) < Len(messages)
    /\ Lookup(clients, "a1") = "c1"
    /\ Lookup(clients, "u1") = "c2"

(* C22: a getHistory frame for a conversation of which the log holds no    *)
(* message is answered with one `history` frame whose list is empty, not   *)
(* with an error frame.                                                    *)
C22_EmptyHistory ==
    [][\A ws \in AllConns : \A data \in AllQueryFrames :
          (/\ data.userId # Absent
           /\ data.targetUserId # Absent
           /\ \A j \in 1..Len(messages) :
                 /\ ~(messages[j].userId = data.userId
                      /\ messages[j].targetUserId = data.targetUserId)
                 /\ ~(messages[j].userId = data.targetUserId
                      /\ messages[j].targetUserId = data.userId)
           /\ GetHistory(ws, data))
          => /\ Len(sent') = 1
             /\ sent'[1].to = ws
             /\ sent'[1].frame.type = "history"
             /\ sent'[1].frame.messages = <<>>
     ]_vars

(* C22 witness: the log is not empty, yet a getHistory on admin a1's       *)
(* connection (whose replay would be the whole log) got an empty list      *)
C22_Witness ==
    /\ Len(sent) = 1
    /\ sent[1].to = "c1"
    /\ sent[1].frame.type = "history"
    /\ sent[1].frame.messages = <<>>
    /\ Len(messages) >= 1
    /\ Lookup(clients, "a1") = "c1"

(* C23: Close is idempotent: when the close of a connection has been       *)
(* handled, running the close handler for that connection once more        *)
(* leaves the directory (and the log, which the handler never reads or     *)
(* writes) as it is.                                                       *)
C23_CloseIdempotent ==
    \A ws \in AllConns :
        readyState[ws] = "CLOSED" => removeClient(clients, ws) = clients

(* C24: registration and replay happen in the step in which the token is   *)
(* verified, and only if it verifies: a refused auth frame writes no       *)
(* directory entry, an accepted one leaves the connection registered when  *)
(* its handler returns; and a send frame that a connection sends under an  *)
(* identifier it has successfully authenticated as finds the sender        *)
(* registered (it is appended, not answered with an error frame).          *)
C24_SendAfterOwnAuth ==
    [][/\ \A ws \in AllConns : \A data \in AllAuthFrames :
             Auth(ws, data)
             => IF data.token = InvalidToken
                THEN clients' = clients
                ELSE /\ Lookup(clients', data.userId) = ws
                     /\ sent'[Len(sent')].frame.type = "history"
       /\ \A ws \in DOMAIN authenticated : \A data \in AllSendFrames :
             (/\ data.userId # Absent
              /\ data.userId \in authenticated[ws]
              /\ Send(ws, data))
             => /\ OneAppended(messages, messages')
                /\ \A i \in 1..Len(sent') : sent'[i].frame.type # "error"
     ]_vars

(* C25: when a connection registers an identifier whose entry another      *)
(* connection holds, the entry is overwritten and the displaced connection *)
(* is neither closed nor written to; and the close of a connection removes *)
(* no entry that points at another connection, so closing a displaced      *)
(* connection leaves the entry of its successor.                           *)
C25_DisplacedNotClosed ==
    [][/\ \A ws \in AllConns : \A data \in AllAuthFrames :
             (/\ data.token # InvalidToken
              /\ Lookup(clients, data.userId) \notin {Absent, ws}
              /\ Auth(ws, data))
             => /\ Lookup(clients', data.userId) = ws
                /\ readyState' = readyState
                /\ SentTo(sent') = {ws}
       /\ \A ws \in AllConns :
             Close(ws)
             => \A k \in Ids :
                   Lookup(clients, k) \notin {Absent, ws}
                   => Lookup(clients', k) = Lookup(clients, k)
     ]_vars

(* C25 witness: c1 registered a1 and is still open (so its entry was in   *)
(* place), c2 has just registered a1: the entry points at c2 and c1 was    *)
(* neither closed nor written to                                           *)
C25_Witness ==
    /\ "a1" \in authenticated["c1"]
    /\ readyState["c1"] = "OPEN"
    /\ readyState["c2"] = "OPEN"
    /\ Lookup(clients, "a1") = "c2"
    /\ Len(sent) = 1
    /\ sent[1].to = "c2"
    /\ sent[1].frame.type = "history"

(* C26: a send frame is accepted (a ChatMessage is appended, frames are    *)
(* relayed) only if the connection it arrived on is the connection that    *)
(* the directory holds for the frame's userId.                             *)
C26_SendOnlyFromRegisteredConnection ==
    [][\A ws \in AllConns : \A data \in AllSendFrames :
          (/\ Send(ws, data)
           /\ \/ messages' # messages
              \/ \E i \in 1..Len(sent') : sent'[i].frame.type = "message")
          => Lookup(clients, data.userId) = ws
     ]_vars

(* the ChatMessages that frame f shows to its recipient *)
Shown(f) ==
    IF f.type = "message" THEN {f.msg}
    ELSE {f.messages[n] : n \in 1..Len(f.messages)}

(* the identifiers under which connection ws is registered in m *)
IdsOf(m, ws) == {m[j].id : j \in EntriesOf(m, ws)}

(* C27: a connection that is registered, with role user only, is written   *)
(* no ChatMessage (in a `message` frame, in the replay, in a getHistory     *)
(* answer) other than those whose senderId or targetId is an identifier it *)
(* is registered under.                                                    *)
C27_UserSeesOwnOnly ==
    \A i \in 1..Len(sent) :
        (/\ EntriesOf(clients, sent[i].to) # {}
         /\ \A j \in EntriesOf(clients, sent[i].to) : clients[j].role = "user")
        => \A m \in Shown(sent[i].frame) :
              \/ m.userId \in IdsOf(clients, sent[i].to)
              \/ m.targetUserId \in IdsOf(clients, sent[i].to)

(* C28: the senderRole of the ChatMessage that a send appends is the role  *)
(* that the directory holds for the sender at that moment, the role the    *)
(* relay routes by.                                                        *)
C28_SenderRoleIsDirectoryRole ==
    [][\A ws \in AllConns : \A data \in AllSendFrames :
          (/\ data.userId # Absent
           /\ Lookup(clients, data.userId) # Absent
           /\ Send(ws, data))
          => messages'[Len(messages')].senderRole = RoleIn(clients, data.userId)
     ]_vars

(* C29: one send writes at most one `message` frame to any one connection, *)
(* whatever the role of the sender and the target.                         *)
C29_AtMostOneFramePerConnection ==
    [][\A ws \in AllConns : \A data \in AllSendFrames :
          Send(ws, data) => \A c \in AllConns : CountTo(sent', c) <= 1
     ]_vars

(* C30: a `message` frame is written only to a connection whose transport  *)
(* is open: not to one that is closed, nor to one on which ws.close() has  *)
(* been called and whose close event is still to come.                     *)
C30_MessageOnlyToOpen ==
    \A i \in 1..Len(sent) :
        sent[i].frame.type = "message" => sent[i].rs = "OPEN"
====
